---------------------------- MODULE Spec2Model ----------------------------
(***************************************************************************)
(* Model of streamlit_app.py: the bulk e-mail sender.  One script run     *)
(* reads the uploaded table, validates the configuration, and walks the   *)
(* rows: clean, validate the address, apply defaults, render, build the   *)
(* message, call the SMTP transport, pause.                                *)
(*                                                                         *)
(* Text is a sequence of character tokens.  The alphabet is               *)
(*   "a" "b" "A" "B"  ordinary ASCII letters                               *)
(*   "@"  " "         the at sign and the plain space                      *)
(*   QUOTE            the double quote                                     *)
(*   "NBSP"           U+00A0, "ZWSP" U+200B                                *)
(*   "eacute"         a non-ASCII letter IDNA can encode                   *)
(*   "PUA"            a non-ASCII code point IDNA rejects (private use)    *)
(* A template is a sequence of tokens too: "{" and "}" are the braces,    *)
(* and a column name ("name", "company", ...) between braces is one       *)
(* token.  A cell is a string [t |-> "str", s |-> text] or the missing    *)
(* marker NaN (a float, which is what the CSV reader yields for an empty  *)
(* cell).                                                                  *)
(***************************************************************************)
EXTENDS Integers, Sequences, FiniteSets, TLC

\* ------------------------------------------------------------------ bounds
MaxRows == 3

\* Longest text and longest template the function specifications draw.
MaxLen == 4

\* ------------------------------------------------------- program constants
wait_time == 30

\* ------------------------------------------------------------------- text
\* F applied to the value of v, with v evaluated once (a statement sequence:
\* compute v, then go on with it).
Then(v, F(_)) == CHOOSE r \in {F(x) : x \in {v}} : TRUE

NonAscii == {"NBSP", "ZWSP", "eacute", "PUA"}

QUOTE == "\""

\* str.isspace() for the alphabet: the space and the non-breaking space.
IsSpace(c) == c \in {" ", "NBSP"}

Str(s) == [t |-> "str", s |-> s]

NaN == [t |-> "nan", s |-> <<>>]

isinstance_str(val) == val.t = "str"

\* Python truthiness of a cell: "" is falsy, a non-empty string and NaN are truthy.
truthy(val) == IF isinstance_str(val) THEN val.s # <<>> ELSE TRUE

SetMin(S) == CHOOSE x \in S : \A y \in S : x <= y

SetMax(S) == CHOOSE x \in S : \A y \in S : x >= y

\* str.replace(old, new) for a single character replaced by a single character.
replace_char(s, old, new) == [i \in 1..Len(s) |-> IF s[i] = old THEN new ELSE s[i]]

\* str.replace(old, "") for a single character.
remove_char(s, old) == SelectSeq(s, LAMBDA c : c # old)

\* str.strip(): leading and trailing whitespace removed.
strip(s) ==
    LET keep == {i \in 1..Len(s) : ~IsSpace(s[i])}
    IN  IF keep = {} THEN <<>> ELSE SubSeq(s, SetMin(keep), SetMax(keep))

\* Mutant: the text is stripped first, before the replacements.
clean_text_strip_first(s) ==
    Then(strip(s), LAMBDA s0 :
    Then(replace_char(s0, "NBSP", " "), LAMBDA s1 : remove_char(s1, "ZWSP")))

\* clean_value on text: NBSP -> space, ZWSP removed, strip.
clean_text(s) ==
    Then(replace_char(s, "NBSP", " "), LAMBDA s1 :
    Then(remove_char(s1, "ZWSP"), LAMBDA s2 : strip(s2)))

\* clean_value: strings are cleaned, anything else (NaN) passes through.
clean_value(val) == IF isinstance_str(val) THEN Str(clean_text(val.s)) ELSE val

\* clean_display_name(name) for a string.
clean_display_name(s) ==
    IF s = <<>> THEN <<>> ELSE strip(remove_char(replace_char(s, "NBSP", " "), "ZWSP"))

\* clean_invisible_unicode(s) for a string: NBSP and ZWSP removed, strip.
clean_invisible_unicode(s) == strip(remove_char(remove_char(s, "NBSP"), "ZWSP"))


\* ---------------------------------------------------------------- results
\* A call either returns a value or raises; None is Python's None.
Ok(v) == [k |-> "ok", v |-> v]

Raise(e) == [k |-> "raise", v |-> <<e>>]

None == [k |-> "none", v |-> <<>>]

Range(s) == {s[i] : i \in 1..Len(s)}

\* ------------------------------------------------------ address normalizer
\* The first word of a phrase: a quoted string without its quotes (up to the
\* closing quote, or to the end when there is none), or an atom, which ends at
\* whitespace or a quote.
first_word(s) ==
    LET t == strip(s)
    IN  IF t = <<>> THEN <<>>
        ELSE IF t[1] = QUOTE
        THEN LET rest == Tail(t)
                 qs == {i \in 1..Len(rest) : rest[i] = QUOTE}
             IN  IF qs = {} THEN rest ELSE SubSeq(rest, 1, SetMin(qs) - 1)
        ELSE LET ends == {i \in 1..Len(t) : IsSpace(t[i]) \/ t[i] = QUOTE}
             IN  IF ends = {} THEN t ELSE SubSeq(t, 1, SetMin(ends) - 1)

\* email.utils.parseaddr(raw)[1] for text without angle brackets, commas or
\* parentheses (the first address of the list).  An "@" inside a quoted string
\* is text of the phrase.  No "@" outside quotes: the first word.  Otherwise
\* the first such "@" ends the local part, which is the text before it,
\* stripped; the domain is the text after it up to the next quote, its
\* whitespace dropped; an empty domain or a second "@" in it: the empty string.
parseaddr(s) ==
    LET quoted(i) == Cardinality({j \in 1..(i - 1) : s[j] = QUOTE}) % 2 = 1
        ats == {i \in 1..Len(s) : s[i] = "@" /\ ~quoted(i)}
    IN  IF ats = {} THEN first_word(s)
        ELSE LET at == SetMin(ats)
                 local == strip(SubSeq(s, 1, at - 1))
                 rest == SubSeq(s, at + 1, Len(s))
                 qs == {i \in 1..Len(rest) : rest[i] = QUOTE}
                 region == IF qs = {} THEN rest ELSE SubSeq(rest, 1, SetMin(qs) - 1)
                 domain == SelectSeq(region, LAMBDA c : ~IsSpace(c))
             IN  IF "@" \in Range(region) \/ domain = <<>>
                 THEN <<>>
                 ELSE local \o <<"@">> \o domain

\* re.sub(r"[<>\s\"']", "", raw): whitespace and double quotes dropped (the
\* alphabet has no brackets or single quotes).
re_sub_strip(s) == SelectSeq(s, LAMBDA c : ~IsSpace(c) /\ c # QUOTE)

\* The idna codec fails on a code point nameprep prohibits.
idna_fails(domain) == "PUA" \in Range(domain)

lower(c) == IF c = "A" THEN "a" ELSE IF c = "B" THEN "b" ELSE c

\* domain.encode("idna").decode("ascii") for a one-label domain: an ASCII label
\* is kept as it is; a label with non-ASCII letters becomes "xn--", its ASCII
\* letters lower-cased, and the punycode digits ("puny").
idna_encode(domain) ==
    IF Range(domain) \cap NonAscii = {} THEN domain
    ELSE LET basic == SelectSeq(domain, LAMBDA c : c \notin NonAscii)
         IN  <<"xn--">> \o [i \in 1..Len(basic) |-> lower(basic[i])] \o <<"puny">>

\* Mutant: the check for "@" is missing, an address without one is accepted.
split_and_encode_no_at_check(addr) ==
    IF addr = <<>> THEN None ELSE Ok(addr)

\* Mutant: the domain is returned as it was parsed, not encoded.
split_and_encode_keep_domain(addr) ==
    IF "@" \notin Range(addr) THEN None ELSE Ok(addr)

\* addr.rsplit("@", 1), the idna codec with its fallback, and the result.
split_and_encode(addr) ==
    LET ats == {i \in 1..Len(addr) : addr[i] = "@"}
    IN  IF ats = {} THEN None
        ELSE LET at == SetMax(ats)
                 local == SubSeq(addr, 1, at - 1)
                 domain == SubSeq(addr, at + 1, Len(addr))
                 domain_ascii ==
                     IF idna_fails(domain)
                     THEN SelectSeq(domain, LAMBDA c : c \notin NonAscii)
                     ELSE idna_encode(domain)
             IN  Ok(local \o <<"@">> \o domain_ascii)

\* The parsed address, or the raw text without whitespace when the parse
\* yields none; stripped.
parse_or_strip(raw) ==
    Then(parseaddr(raw), LAMBDA parsed :
         strip(IF parsed = <<>> THEN re_sub_strip(raw) ELSE parsed))

clean_email_address(raw_email) ==
    IF ~truthy(raw_email) THEN None
    ELSE Then(clean_value(raw_email), LAMBDA raw :
              IF ~isinstance_str(raw) THEN Raise("TypeError")
              ELSE Then(parse_or_strip(raw.s), LAMBDA addr : split_and_encode(addr)))

\* ------------------------------------------------------- template renderer
\* str(value) as format() writes it: a string as it is, NaN as "nan".
str_of(val) == IF isinstance_str(val) THEN val.s ELSE <<"nan">>

\* defaultdict(str, mapping)[key]: the value, or "" for a missing key.  A field
\* of several tokens names no column.
lookup(mapping, field) ==
    IF Len(field) = 1 /\ field[1] \in DOMAIN mapping THEN str_of(mapping[field[1]]) ELSE <<>>

prepend(text, res) == Then(res, LAMBDA r : IF r.k = "ok" THEN Ok(text \o r.v) ELSE r)

\* str.format_map from position i: "{{" and "}}" are literal braces, a single
\* "}", an unclosed "{", a "{" inside a field and an empty field raise ValueError.
RECURSIVE format_from(_, _, _)
format_from(template, mapping, i) ==
    IF i > Len(template) THEN Ok(<<>>)
    ELSE IF template[i] = "}"
    THEN IF i < Len(template) /\ template[i + 1] = "}"
         THEN prepend(<<"}">>, format_from(template, mapping, i + 2))
         ELSE Raise("ValueError")
    ELSE IF template[i] = "{"
    THEN IF i = Len(template) THEN Raise("ValueError")
         ELSE IF template[i + 1] = "{"
         THEN prepend(<<"{">>, format_from(template, mapping, i + 2))
         ELSE LET braces == {j \in (i + 1)..Len(template) : template[j] \in {"{", "}"}}
              IN  IF braces = {} THEN Raise("ValueError")
                  ELSE LET j == SetMin(braces)
                       IN  IF template[j] = "{" \/ j = i + 1 THEN Raise("ValueError")
                           ELSE prepend(lookup(mapping, SubSeq(template, i + 1, j - 1)),
                                        format_from(template, mapping, j + 1))
    ELSE prepend(<<template[i]>>, format_from(template, mapping, i + 1))

safe_format(template, mapping) == format_from(template, mapping, 1)

\* ------------------------------------------------------------------ inputs
\* Rows the uploaded CSV may hold, over the columns email and name.
EmailNameRows ==
    { [email |-> Str(<<"a", "@", "b">>),         name |-> Str(<<"A", " ", "B">>)],
      [email |-> NaN,                            name |-> Str(<<"A", " ", "B">>)],
      [email |-> Str(<<" ">>),                   name |-> Str(<<"A", " ", "B">>)],
      [email |-> Str(<<"a", "b">>),              name |-> Str(<<"B">>)],
      [email |-> Str(<<"a", "@", "b">>),         name |-> NaN],
      [email |-> Str(<<"NBSP", "b", "@", "a">>), name |-> Str(<<" ">>)],
      [email |-> Str(<<"eacute", "@", "b">>),    name |-> Str(<<"A">>)] }

\* Rows of a CSV that has no email column.
NameOnlyRows == { [name |-> Str(<<"A", " ", "B">>)] }

\* Rows of a CSV that has a company column as well.
CompanyRows ==
    { [email |-> Str(<<"a", "@", "b">>), name |-> Str(<<"A", " ", "B">>), company |-> Str(<<"a">>)],
      [email |-> Str(<<"a", "@", "b">>), name |-> Str(<<"B">>), company |-> NaN] }

SeqsUpTo(S, n) == UNION {[1..k -> S] : k \in 0..n}

\* A data frame: every row has the same columns.
Tables == SeqsUpTo(EmailNameRows, MaxRows) \cup SeqsUpTo(NameOnlyRows, MaxRows)
              \cup SeqsUpTo(CompanyRows, MaxRows)

\* The uploader (and df) holds a table, or nothing (None).
File(rows) == [present |-> TRUE, rows |-> rows]

NoFile == [present |-> FALSE, rows |-> <<>>]

\* What the subject and body inputs may hold: nothing, a greeting with a
\* placeholder, a lone opening brace, two placeholders.
Templates ==
    { <<>>, <<"A", "{", "name", "}">>, <<"{">>, <<"{", "company", "}", "{", "name", "}">> }

FromEmailInputs == { <<>>, <<"NBSP">>, <<"b", "@", "a">> }

PasswordInputs == { <<>>, <<"a">> }

\* The optional sender name, the cost and the currency of the form.
from_name == <<"B", "NBSP", "a">>

cost == <<"1000.0">>

currency == <<"USD">>

\* What the SMTP exchange may raise (str(e) is the failed row's reason).
TransportErrors == {"SMTPAuthenticationError", "SMTPRecipientsRefused"}

\* ------------------------------------------------------------------- state
VARIABLES
    uploaded_file,   \* the uploaded CSV as read by read_csv, or NoFile (nothing uploaded)
    from_email_in,   \* text of the "Your email address" input
    app_password_in, \* text of the "App password" input
    subject_tpl,     \* subject template
    body_tpl,        \* body template
    pc,              \* "idle", "loop", "pause", "done", "halted" (st.stop), "crashed"
    df,              \* the cleaned data frame, or NoFile
    total,           \* len(df)
    idx,             \* rows the loop has taken so far (the next row is df[idx + 1])
    sent,            \* count of successful sends
    skipped_rows,    \* records of skipped rows
    failed_rows,     \* records of failed rows
    remaining,       \* seconds of the countdown still to sleep
    sendLog,         \* the messages handed to the SMTP transport, in order
    st_error,        \* the st.error notice of the validation, or <<>>
    exc,             \* the uncaught exception that ended the script run, or <<>>
    summary,         \* the "Done" notice, or <<>>
    stopRequested,   \* the caller's cancellation signal
    slept,           \* seconds slept (time.sleep(1) calls) since the last SMTP call
    arg,             \* the argument of a function applied on its own, or <<>>
    ret              \* what the applications of the function returned, in order

vars == << uploaded_file, from_email_in, app_password_in, subject_tpl, body_tpl, pc, df,
           total, idx, sent, skipped_rows, failed_rows, remaining, sendLog, st_error,
           exc, summary, stopRequested, slept, arg, ret >>

inputs == << uploaded_file, from_email_in, app_password_in, subject_tpl, body_tpl >>

Init ==
    /\ uploaded_file \in {File(t) : t \in Tables} \cup {NoFile}
    /\ from_email_in \in FromEmailInputs
    /\ app_password_in \in PasswordInputs
    /\ subject_tpl \in Templates
    /\ body_tpl \in Templates
    /\ pc = "idle"
    /\ df = NoFile
    /\ total = 0
    /\ idx = 0
    /\ sent = 0
    /\ skipped_rows = <<>>
    /\ failed_rows = <<>>
    /\ remaining = 0
    /\ sendLog = <<>>
    /\ st_error = <<>>
    /\ exc = <<>>
    /\ summary = <<>>
    /\ stopRequested = FALSE
    /\ slept = 0
    /\ arg = <<>>
    /\ ret = <<>>

\* ----------------------------------------------------------------- actions
from_email == clean_invisible_unicode(from_email_in)

app_password == clean_invisible_unicode(app_password_in)

\* Mutant: the check asks for both to be empty.
credentials_missing_both(address, password) == address = <<>> /\ password = <<>>

\* "if not from_email or not app_password".
credentials_missing(address, password) == address = <<>> \/ password = <<>>

\* df.applymap(clean_value) on the uploaded table.
read_and_clean(file) ==
    IF ~file.present THEN NoFile
    ELSE File([i \in 1..Len(file.rows) |->
                  [c \in DOMAIN file.rows[i] |-> clean_value(file.rows[i][c])]])

\* The script run of a click on "Send Emails" up to the loop: the table is read
\* and cleaned, the credentials and the table are checked, the counters start.
SendClicked ==
    /\ pc = "idle"
    /\ df' = read_and_clean(uploaded_file)
    /\ IF credentials_missing(from_email, app_password)
       THEN /\ st_error' = <<"Please provide your email and app password.">>
            /\ pc' = "halted"
            /\ UNCHANGED total
       ELSE IF ~df'.present
       THEN /\ st_error' = <<"Please upload a CSV file with recipients.">>
            /\ pc' = "halted"
            /\ UNCHANGED total
       ELSE /\ pc' = "loop"
            /\ total' = Len(df'.rows)
            /\ UNCHANGED st_error
    /\ idx' = 0
    /\ sent' = 0
    /\ skipped_rows' = <<>>
    /\ failed_rows' = <<>>
    /\ UNCHANGED << inputs, arg, ret, remaining, sendLog, exc, summary, stopRequested, slept >>

\* dict.setdefault(key, value): a key the row already has keeps its cell.
setdefault(d, key, value) ==
    Then(d, LAMBDA m :
         IF key \in DOMAIN m THEN m
         ELSE [c \in DOMAIN m \cup {key} |-> IF c = key THEN value ELSE m[c]])

\* dict.get(key, ""): the cell, or "" when the row has no such column.
get(d, key) == IF key \in DOMAIN d THEN d[key] ELSE Str(<<>>)

\* The five setdefault calls of the loop.
apply_defaults(rowd) ==
    setdefault(setdefault(setdefault(setdefault(setdefault(rowd,
        "sender", Str(from_name)),
        "cost", Str(cost)),
        "currency", Str(currency)),
        "company", Str(<<>>)),
        "name", Str(<<>>))

\* Mutant: the body takes the whole name.
first_name_whole(full_name) == full_name

\* full_name.split()[0] if full_name.strip() else "".
first_name(full_name) ==
    LET t == strip(full_name)
        sp == {i \in 1..Len(t) : IsSpace(t[i])}
    IN  IF t = <<>> THEN <<>>
        ELSE IF sp = {} THEN t ELSE SubSeq(t, 1, SetMin(sp) - 1)

\* {**rowd, "__reason": reason}.
with_reason(rowd, reason) ==
    [c \in DOMAIN rowd \cup {"__reason"} |-> IF c = "__reason" THEN Str(<<reason>>) ELSE rowd[c]]

\* formataddr((name, address)) raises UnicodeEncodeError for an address that is
\* not ASCII.
formataddr_raises(address) == Range(address) \cap NonAscii # {}

Crashes(e, rowd) == [kind |-> "crash", exc |-> e, rowd |-> rowd, msg |-> <<>>]

\* One row of the loop up to the SMTP call: the cleaned row, the address, the
\* defaults, the two mappings, the rendered texts and the headers.  The row
\* is skipped, or an exception leaves the loop, or a message is ready.
row_step(row, subject, body, sender_addr) ==
    Then([c \in DOMAIN row |-> clean_value(row[c])], LAMBDA rowd :
    Then(clean_email_address(get(rowd, "email")), LAMBDA recip_addr :
      IF recip_addr.k = "raise" THEN Crashes(recip_addr.v[1], rowd)
      ELSE IF recip_addr.k = "none"
      THEN [kind |-> "skip", exc |-> "", rowd |-> rowd, msg |-> <<>>]
      ELSE
    Then(apply_defaults(rowd), LAMBDA merged :
    Then(get(merged, "name"), LAMBDA full_name :
      IF ~isinstance_str(full_name) THEN Crashes("AttributeError", merged)
      ELSE
    Then([merged EXCEPT !["name"] = Str(first_name(full_name.s))], LAMBDA body_mapping :
    Then(safe_format(subject, merged), LAMBDA subj_text :
    Then(safe_format(body, body_mapping), LAMBDA body_text :
      IF subj_text.k = "raise" THEN Crashes(subj_text.v[1], merged)
      ELSE IF body_text.k = "raise" THEN Crashes(body_text.v[1], merged)
      ELSE IF formataddr_raises(sender_addr) \/ formataddr_raises(recip_addr.v)
      THEN Crashes("UnicodeEncodeError", merged)
      ELSE [kind |-> "send", exc |-> "", rowd |-> merged,
            msg |-> [to |-> recip_addr.v,
                     to_display |-> clean_display_name(full_name.s),
                     subject |-> subj_text.v,
                     body |-> body_text.v]])))))))

\* Mutant: a failed exchange is tried a second time.
transport_calls_retry(i, msg, result) ==
    IF result = "ok"
    THEN << [row |-> i, result |-> result] @@ msg >>
    ELSE << [row |-> i, result |-> result] @@ msg, [row |-> i, result |-> result] @@ msg >>

\* The SMTP exchange of one message: one send_message call, which returns
\* ("ok") or raises; the call as the transport sees it.
transport_calls(i, msg, result) == << [row |-> i, result |-> result] @@ msg >>

\* Mutant: the count is incremented before the exchange, so a failure counts.
after_send_counts_failure(result, rowd, count, failed) ==
    IF result = "ok"
    THEN [sent |-> count + 1, failed_rows |-> failed]
    ELSE [sent |-> count + 1, failed_rows |-> Append(failed, with_reason(rowd, result))]

\* The try/except around the exchange: a success counts, an exception appends
\* the failed record with str(e) as its reason.
after_send(result, rowd, count, failed) ==
    IF result = "ok"
    THEN [sent |-> count + 1, failed_rows |-> failed]
    ELSE [sent |-> count, failed_rows |-> Append(failed, with_reason(rowd, result))]

\* Mutant: the countdown is left out before the last row as well.
pause_follows_but_last_two(i, n) == i < n - 2

\* Mutant: the countdown follows every row, the last one too.
pause_follows_always(i, n) == TRUE

\* Whether the countdown follows the row just taken: idx < total - 1 with the
\* row's own index.
pause_follows(i, n) == i < n - 1

\* One iteration of "for idx, row in df.iterrows()".
ProcessRow ==
    /\ pc = "loop"
    /\ idx < total
    /\ \E r \in {row_step(df.rows[idx + 1], subject_tpl, body_tpl, from_email)} :
           \/ /\ r.kind = "crash"
              /\ pc' = "crashed"
              /\ exc' = <<r.exc>>
              /\ UNCHANGED << idx, sent, skipped_rows, failed_rows, remaining, sendLog, slept >>
           \/ /\ r.kind = "skip"
              /\ skipped_rows' = Append(skipped_rows, with_reason(r.rowd, "missing/invalid email"))
              /\ idx' = idx + 1
              /\ UNCHANGED << pc, exc, sent, failed_rows, remaining, sendLog, slept >>
           \/ /\ r.kind = "send"
              /\ \E result \in {"ok"} \cup TransportErrors :
                    /\ sendLog' = sendLog \o transport_calls(idx + 1, r.msg, result)
                    /\ \E a \in {after_send(result, r.rowd, sent, failed_rows)} :
                          sent' = a.sent /\ failed_rows' = a.failed_rows
              /\ idx' = idx + 1
              /\ slept' = 0
              /\ IF pause_follows(idx, total)
                 THEN pc' = "pause" /\ remaining' = wait_time
                 ELSE UNCHANGED << pc, remaining >>
              /\ UNCHANGED << exc, skipped_rows >>
    /\ UNCHANGED << inputs, arg, ret, df, total, st_error, summary, stopRequested >>

\* One second of the countdown: time.sleep(1).
Tick ==
    /\ pc = "pause"
    /\ remaining' = remaining - 1
    /\ pc' = IF remaining' = 0 THEN "loop" ELSE "pause"
    /\ slept' = slept + 1
    /\ UNCHANGED << inputs, arg, ret, df, total, idx, sent, skipped_rows, failed_rows, sendLog,
                    st_error, exc, summary, stopRequested >>

\* The loop is over: the "Done" notice.
Finish ==
    /\ pc = "loop"
    /\ idx = total
    /\ pc' = "done"
    /\ summary' = << [attempted |-> total, sent |-> sent,
                      skipped |-> Len(skipped_rows), failed |-> Len(failed_rows)] >>
    /\ UNCHANGED << inputs, arg, ret, df, total, idx, sent, skipped_rows, failed_rows, remaining,
                    sendLog, st_error, exc, stopRequested, slept >>

\* The caller asks the running dispatch to stop.
RequestStop ==
    /\ pc \in {"loop", "pause"}
    /\ ~stopRequested
    /\ stopRequested' = TRUE
    /\ UNCHANGED << inputs, arg, ret, pc, df, total, idx, sent, skipped_rows, failed_rows,
                    remaining, sendLog, st_error, exc, summary, slept >>

Next == SendClicked \/ ProcessRow \/ Tick \/ Finish \/ RequestStop

Spec == Init /\ [][Next]_vars

\* The script run goes on by itself once it is started: the interpreter takes
\* the next row, the sleep returns, the loop ends.  The click is the user's.
FairSpec == Spec /\ WF_vars(ProcessRow) /\ WF_vars(Tick) /\ WF_vars(Finish)

\* ---------------------------------------------- the functions on their own
\* The state of the script run, which an application of a function on its own
\* leaves alone.
dispatch == << inputs, pc, df, total, idx, sent, skipped_rows, failed_rows, remaining,
               sendLog, st_error, exc, summary, stopRequested, slept >>

\* No file, empty form, no run.
NoRun ==
    /\ uploaded_file = NoFile
    /\ from_email_in = <<>>
    /\ app_password_in = <<>>
    /\ subject_tpl = <<>>
    /\ body_tpl = <<>>
    /\ pc = "idle"
    /\ df = NoFile
    /\ total = 0
    /\ idx = 0
    /\ sent = 0
    /\ skipped_rows = <<>>
    /\ failed_rows = <<>>
    /\ remaining = 0
    /\ sendLog = <<>>
    /\ st_error = <<>>
    /\ exc = <<>>
    /\ summary = <<>>
    /\ stopRequested = FALSE
    /\ slept = 0

\* clean_email_address applied to a raw address.
AddressChars == {"a", "@", " ", QUOTE, "eacute", "PUA", "NBSP", "ZWSP"}

RawAddresses == {Str(s) : s \in SeqsUpTo(AddressChars, MaxLen)}

NormalizeInit == NoRun /\ arg \in RawAddresses /\ ret = <<>>

Normalize ==
    /\ ret = <<>>
    /\ ret' = << clean_email_address(arg) >>
    /\ UNCHANGED << dispatch, arg >>

NormalizeSpec == NormalizeInit /\ [][Normalize]_vars

\* safe_format applied to a template and a row mapping.
TemplateTokens == {"A", "{", "}", "name", "company"}

RenderTemplates == SeqsUpTo(TemplateTokens, MaxLen)

RenderMappings ==
    { [name |-> Str(<<"A", " ", "B">>)],
      [name |-> Str(<<"B">>), company |-> Str(<<"a">>)],
      [name |-> Str(<<>>), company |-> NaN] }

RenderInit ==
    /\ NoRun
    /\ arg \in {[template |-> t, mapping |-> m] : t \in RenderTemplates, m \in RenderMappings}
    /\ ret = <<>>

Render ==
    /\ ret = <<>>
    /\ ret' = << safe_format(arg.template, arg.mapping) >>
    /\ UNCHANGED << dispatch, arg >>

RenderSpec == RenderInit /\ [][Render]_vars

\* clean_value applied to a string, and again to what it returned.
SanitizeChars == {"a", " ", "NBSP", "ZWSP"}

SanitizeInit == NoRun /\ arg \in {Str(s) : s \in SeqsUpTo(SanitizeChars, MaxLen)} /\ ret = <<>>

Sanitize ==
    /\ Len(ret) < 2
    /\ ret' = Append(ret, clean_value(IF ret = <<>> THEN arg ELSE ret[Len(ret)]))
    /\ UNCHANGED << dispatch, arg >>

SanitizeSpec == SanitizeInit /\ [][Sanitize]_vars

\* ------------------------------------------------------------- properties
\* The rows of the table a run is about, and how many there are.
N == Len(uploaded_file.rows)

\* A row whose email is missing (no column, or the missing marker), blank, or
\* without an "@".
MissingOrInvalid(row) ==
    \/ "email" \notin DOMAIN row
    \/ ~isinstance_str(row["email"])
    \/ "@" \notin Range(row["email"].s)

\* K for the first n rows of the table.
K(n) == Cardinality({i \in 1..n : MissingOrInvalid(uploaded_file.rows[i])})

Records == sent + Len(skipped_rows) + Len(failed_rows)

C2_NoAbort == pc # "crashed" /\ exc = <<>>

\* C3: the loop's step on a row whose email is missing, blank or without "@"
\* records the row as skipped with the reason "missing/invalid email", calls
\* no transport and goes on with the next row.
C3_InvalidSkipped ==
    [][ ( /\ pc = "loop"
          /\ idx < total
          /\ MissingOrInvalid(uploaded_file.rows[idx + 1])
          /\ (idx' # idx \/ pc' # pc) )
        => ( /\ skipped_rows' = Append(skipped_rows,
                                   with_reason(df.rows[idx + 1], "missing/invalid email"))
             /\ sendLog' = sendLog
             /\ idx' = idx + 1
             /\ pc' = "loop" ) ]_vars

\* C4: a row whose exchange raises is recorded as failed with the error's
\* description as its reason, is not counted as sent, and the loop goes on:
\* to the countdown when rows remain, to the end of the loop otherwise.
C4_FailedRecorded ==
    [][ ( /\ Len(sendLog') > Len(sendLog)
          /\ sendLog'[Len(sendLog')].result # "ok" )
        => ( /\ sendLog'[Len(sendLog')].result \in TransportErrors
             /\ Len(failed_rows') = Len(failed_rows) + 1
             /\ SubSeq(failed_rows', 1, Len(failed_rows)) = failed_rows
             /\ failed_rows'[Len(failed_rows')]["__reason"]
                   = Str(<<sendLog'[Len(sendLog')].result>>)
             /\ sent' = sent
             /\ skipped_rows' = skipped_rows
             /\ idx' = idx + 1
             /\ pc' = IF idx' < total THEN "pause" ELSE "loop" ) ]_vars

\* The first exchange failed and the loop went on to send the next row.
C4_Witness ==
    /\ Len(sendLog) >= 2
    /\ sendLog[1].result \in TransportErrors
    /\ sendLog[2].result = "ok"
    /\ Len(failed_rows) = 1
    /\ sent = 1

\* C5: the transport is called at most once per row: the rows of the calls
\* are strictly increasing.
C5_AtMostOnce ==
    \A i, j \in 1..Len(sendLog) : i < j => sendLog[i].row < sendLog[j].row

\* Three rows were handed to the transport, the first of which failed.
C5_Witness ==
    /\ Len(sendLog) = 3
    /\ sendLog[1].result # "ok"
    /\ pc = "done"

\* C6: once cancellation is requested no further row is attempted: the rows
\* after the one being processed are neither sent, skipped nor failed.
C6_StopHalts ==
    [][ stopRequested =>
           /\ idx' = idx
           /\ sendLog' = sendLog
           /\ skipped_rows' = skipped_rows
           /\ failed_rows' = failed_rows ]_vars

\* C7: a countdown that finds the cancellation requested ends at once and the
\* run stops: it neither sleeps another second nor returns to the loop.
C7_PauseInterruptible ==
    [][ (pc = "pause" /\ stopRequested) => pc' \notin {"pause", "loop"} ]_vars

C9_NoCredentials ==
    (pc # "idle" /\ (from_email = <<>> \/ app_password = <<>>)) =>
        /\ pc = "halted"
        /\ st_error = <<"Please provide your email and app password.">>
        /\ idx = 0
        /\ Records = 0
        /\ sendLog = <<>>
        /\ summary = <<>>

\* A three-row table and a password, with a sender address of invisible
\* characters only: the run stopped at the check.
C9_Witness ==
    /\ pc = "halted"
    /\ from_email_in = <<"NBSP">>
    /\ app_password_in # <<>>
    /\ uploaded_file.present
    /\ N = 3

\* C10: a run started with an empty subject template, an empty body template
\* or a table of zero rows surfaces a validation error, makes no attempt and
\* never calls the transport.
C10_EmptyInputsRejected ==
    ( /\ pc # "idle"
      /\ \/ subject_tpl = <<>>
         \/ body_tpl = <<>>
         \/ (uploaded_file.present /\ N = 0) )
    => ( /\ idx = 0
         /\ sendLog = <<>>
         /\ (pc \in {"done", "halted", "crashed"} => st_error # <<>>) )

\* The keys the loop fills in, with the default of each.
DefaultKeys == {"sender", "cost", "currency", "company", "name"}

default_of(key) ==
    IF key = "sender" THEN Str(from_name)
    ELSE IF key = "cost" THEN Str(cost)
    ELSE IF key = "currency" THEN Str(currency)
    ELSE Str(<<>>)

\* A blank or empty cell: the missing marker, or text of whitespace only.
blank(cell) == ~isinstance_str(cell) \/ strip(cell.s) = <<>>

\* C11: for each row handed to the transport, the merged row holds under each
\* of sender, cost, currency, company and name the row's own cell when the row
\* has the column and the cell is not blank, and the default otherwise.
C11_DefaultsFill ==
    \A k \in 1..Len(sendLog) :
        LET row == df.rows[sendLog[k].row]
            merged == apply_defaults(row)
        IN  \A key \in DefaultKeys :
                merged[key] = IF key \in DOMAIN row /\ ~blank(row[key])
                              THEN row[key]
                              ELSE default_of(key)

\* The k-th smallest member of a set of numbers.
Kth(S, k) == CHOOSE i \in S : Cardinality({j \in S : j <= i}) = k

\* The rows taken so far that were not handed to the transport: the skipped ones.
SkippedIdx == {i \in 1..idx : \A k \in 1..Len(sendLog) : sendLog[k].row # i}

\* The exchanges that raised, in order.
FailedLog == SelectSeq(sendLog, LAMBDA m : m.result # "ok")

\* A record holds the columns of the row with their cells, and the reason,
\* and nothing else.
ExportOf(rec, row) ==
    /\ DOMAIN rec = DOMAIN row \cup {"__reason"}
    /\ \A c \in DOMAIN row : rec[c] = row[c]

\* C12: every skipped and every failed record has exactly the columns of its
\* row of the table, each with the row's cell, plus the reason.
C12_ExportedColumns ==
    /\ \A k \in 1..Len(skipped_rows) :
           k <= Cardinality(SkippedIdx) =>
               ExportOf(skipped_rows[k], df.rows[Kth(SkippedIdx, k)])
    /\ \A k \in 1..Len(failed_rows) :
           k <= Len(FailedLog) =>
               ExportOf(failed_rows[k], df.rows[FailedLog[k].row])


\* The text after the last "@" of an address.
domain_of(addr) == SubSeq(addr, SetMax({i \in 1..Len(addr) : addr[i] = "@"}) + 1, Len(addr))

\* The address is there and its domain is ASCII only.
AsciiDomain(r) ==
    /\ r.k = "ok"
    /\ "@" \in Range(r.v)
    /\ Range(domain_of(r.v)) \cap NonAscii = {}

\* The mailbox parse of the cleaned text finds an address part, and it has no
\* "@": every "@" of the text is inside a quoted string.
ParseHidesAt(raw) ==
    LET parsed == parseaddr(clean_text(raw))
    IN  parsed # <<>> /\ "@" \notin Range(parsed)

\* C13 as stated: a raw address with an "@" normalizes to an address whose
\* domain is ASCII only, a raw string without "@" to None.
C13_AtMeansAddress ==
    ret # <<>> =>
        IF "@" \in Range(arg.s) THEN AsciiDomain(ret[1]) ELSE ret[1] = None

\* C13 amended: a raw string without "@" normalizes to None, and so does one
\* whose "@" the mailbox parse leaves out of the address part (the "@" is
\* inside a quoted string); every other raw address normalizes to an address
\* whose domain is ASCII only.
C13_Normalize ==
    ret # <<>> =>
        IF "@" \notin Range(arg.s) \/ ParseHidesAt(arg.s)
        THEN ret[1] = None
        ELSE AsciiDomain(ret[1])

\* A domain with a non-ASCII letter was encoded.
C13_Witness ==
    /\ arg = Str(<<"a", "@", "eacute", "a">>)
    /\ ret # <<>>
    /\ ret[1].k = "ok"


\* C14: safe_format raises for no template and no mapping; a template that is
\* one placeholder renders as the row's value when the row has the key and as
\* the empty string when it has not.
C14_RenderNeverRaises ==
    ret # <<>> =>
        /\ ret[1].k = "ok"
        /\ \A key \in {"name", "company"} :
               arg.template = <<"{", key, "}">> =>
                   ret[1].v = IF key \in DOMAIN arg.mapping
                              THEN str_of(arg.mapping[key])
                              ELSE <<>>

\* C15: clean_value applied to what clean_value returned gives the same again.
C15_Idempotent == Len(ret) = 2 => ret[2] = ret[1]

\* A string with a non-breaking space inside, a zero-width space and spaces
\* around, cleaned twice; the first cleaning changed it.
C15_Witness ==
    /\ arg = Str(<<" ", "ZWSP", "NBSP", "a">>)
    /\ Len(ret) = 2
    /\ ret[1] = Str(<<"a">>)


\* tok is the first whitespace-delimited token of text: the empty string when
\* text is blank, otherwise the run of non-blank characters that starts at
\* the first of them.
IsFirstToken(tok, text) ==
    IF \A i \in 1..Len(text) : IsSpace(text[i])
    THEN tok = <<>>
    ELSE \E i, j \in 1..Len(text) :
            /\ i <= j
            /\ tok = SubSeq(text, i, j)
            /\ \A h \in 1..(i - 1) : IsSpace(text[h])
            /\ \A h \in i..j : ~IsSpace(text[h])
            /\ j < Len(text) => IsSpace(text[j + 1])

\* C16: for every row handed to the transport the To display name is the
\* row's full name, the subject is the subject template rendered with the
\* merged row (the full name under "name"), and the body is the body template
\* rendered with the same row except that "name" is the first token of the
\* full name.
C16_FirstNameInBody ==
    \A k \in 1..Len(sendLog) :
        LET row == df.rows[sendLog[k].row]
            full == get(row, "name").s
            merged == apply_defaults(row)
        IN  /\ sendLog[k].to_display = full
            /\ sendLog[k].subject = safe_format(subject_tpl, merged).v
            /\ \E tok \in {<<>>} \cup {SubSeq(full, i, j) : i, j \in 1..Len(full)} :
                  /\ IsFirstToken(tok, full)
                  /\ sendLog[k].body
                        = safe_format(body_tpl, [c \in DOMAIN merged |->
                                                    IF c = "name" THEN Str(tok) ELSE merged[c]]).v

\* A row named "A B" with a company went out under the template of two
\* placeholders: the subject has the full name, the body the first name, and
\* both the company.
C16_Witness ==
    /\ subject_tpl = <<"{", "company", "}", "{", "name", "}">>
    /\ body_tpl = subject_tpl
    /\ \E k \in 1..Len(sendLog) :
          /\ sendLog[k].subject = <<"a", "A", " ", "B">>
          /\ sendLog[k].body = <<"a", "A">>
          /\ sendLog[k].to_display = <<"A", " ", "B">>


DoneInOrder ==
    /\ pc = "done"
    /\ summary # <<>>
    /\ idx = total
    /\ total = N
    /\ \A i, j \in 1..Len(sendLog) : i < j => sendLog[i].row < sendLog[j].row
    /\ Len(skipped_rows) = Cardinality(SkippedIdx)
    /\ \A k \in 1..Len(skipped_rows) :
           \A c \in DOMAIN df.rows[Kth(SkippedIdx, k)] :
               skipped_rows[k][c] = df.rows[Kth(SkippedIdx, k)][c]
    /\ Len(failed_rows) = Len(FailedLog)
    /\ \A k \in 1..Len(failed_rows) :
           \A c \in DOMAIN df.rows[FailedLog[k].row] :
               failed_rows[k][c] = df.rows[FailedLog[k].row][c]
    /\ sent = Len(sendLog) - Len(FailedLog)

\* C18: a run that has entered the loop eventually reaches the "Done" notice,
\* with every row taken once in table order and the skipped and failed
\* records in that order.
C18_ReachesDone == (pc = "loop") ~> DoneInOrder


=============================================================================
